---- MODULE Spec2Model ----
(***************************************************************************)
(* A model of the secondtry bot: the cron-job registry and scheduler loop  *)
(* (cronjobs.py), and the per-guild status store with its observer hook    *)
(* (datastore.py, roster.py).                                              *)
(*                                                                         *)
(* Time.  A datetime is [date, hour, minute]: date counts calendar days    *)
(* from a Monday, so Python's weekday() is date % 7.  The fields below the *)
(* minute are left out: should_run builds scheduled_time from the clock by *)
(* replace(hour=, minute=), which copies them, so they are equal on both   *)
(* sides of the comparison.  One evaluation of should_run reads the clock  *)
(* once (the contract shouldRun(job, now)).  A day has the hours           *)
(* 0..LastHour and an hour the minutes 0..LastMinute.                      *)
(***************************************************************************)
EXTENDS Integers, Sequences, FiniteSets, Bags, TLC

\* ---------------------------------------------------------------- bounds
\* a day has the hours 0..LastHour, an hour the minutes 0..LastMinute
LastHour == 1
LastMinute == 1
\* the calendar dates 0..MaxDate: a week and the Monday after it
MaxDate == 7
\* the job ids handed out in one run, and in a run of WideSpec
MaxJobs == 2
MaxJobsWide == 3
\* asyncio.sleep(60) returns one minute later, or late by up to MaxSleep
MaxSleep == 2
\* the handlers in flight at one time, and the messages channel.send creates
MaxProcs == 2
MaxMessages == 2

\* Day.MONDAY = 0 .. Day.SUNDAY = 6
DaysPerWeek == 7

VARIABLES
    now,            \* datetime.now()
    JOBS,           \* cronjobs.JOBS: id -> job, iterated in insertion (= id) order
    next_id,        \* the next fresh job id (uuid4 never repeats)
    id_limit,       \* the number of job ids the run hands out
    loop,           \* start_cron_jobs: "NotStarted", "Running", "Stopped"
    tasks,          \* id -> the job's latest asyncio task running job.run()
    dispatch_log,   \* history: id -> [date, count] of the latest date a tick dispatched it
    db,             \* tinydb: guild id -> document (key -> value)
    probe,          \* history: the operation the latest step applied
    OBSERVERS,      \* datastore.OBSERVERS: guild id -> the Roster whose callback is registered
    rosters,        \* the Roster objects: id -> [message, member_statuses]
    next_message,   \* the id of the next message channel.send creates
    role_members,   \* Discord: guild id -> the members of the guild's static role
    shown,          \* history: watched message id -> the status list of its latest message.edit
    surface,        \* Discord: watched message id -> the status list the message shows
    loops,          \* history: the start_cron_jobs tasks that on_ready has created
    procs           \* the bag of suspended handlers: where each stands, with its history

\* what the store handlers leave alone, and what the scheduler leaves alone
sched_vars == <<now, JOBS, next_id, id_limit, loop, loops, tasks, dispatch_log>>
store_vars == <<OBSERVERS, rosters, next_message, role_members, shown, surface, procs>>

vars == <<now, JOBS, next_id, id_limit, loop, loops, tasks, dispatch_log, db, probe,
          OBSERVERS, rosters, next_message, role_members, shown, surface, procs>>

\* ------------------------------------------------------------- datetimes
None == [none |-> TRUE]

Datetime(d, h, m) == [date |-> d, hour |-> h, minute |-> m]

Hours == 0..LastHour
Minutes == 0..LastMinute
Dates == 0..MaxDate
Instants == {Datetime(d, h, m) : d \in Dates, h \in Hours, m \in Minutes}

\* the clock is inside the modelled calendar
InCalendar(dt) == dt.date \in Dates

\* datetime.weekday(): Monday is 0
Weekday(dt) == dt.date % DaysPerWeek

\* a strict comparison where the code has >=
DtGT(a, b) ==
    \/ a.date > b.date
    \/ a.date = b.date /\ a.hour > b.hour
    \/ a.date = b.date /\ a.hour = b.hour /\ a.minute > b.minute

\* datetime.__ge__: field by field, most significant first
DtGE(a, b) ==
    \/ a.date > b.date
    \/ a.date = b.date /\ a.hour > b.hour
    \/ a.date = b.date /\ a.hour = b.hour /\ a.minute >= b.minute

\* datetime.replace(hour=, minute=) raises ValueError outside the ranges
ReplaceRaises(h, m) == ~(h \in Hours /\ m \in Minutes)

Replace(dt, h, m) == [dt EXCEPT !.hour = h, !.minute = m]

\* the clock one minute later
NextInstant(dt) ==
    IF dt.minute < LastMinute THEN [dt EXCEPT !.minute = dt.minute + 1]
    ELSE IF dt.hour < LastHour THEN [dt EXCEPT !.hour = dt.hour + 1, !.minute = 0]
    ELSE Datetime(dt.date + 1, 0, 0)

\* the clock k minutes later
RECURSIVE After(_, _)
After(dt, k) == IF k = 0 THEN dt ELSE After(NextInstant(dt), k - 1)

\* ------------------------------------------------------------------ jobs
DailyCronJob(hour, minute, task, args) ==
    [kind |-> "daily", hour |-> hour, minute |-> minute,
     task |-> task, args |-> args, last_run |-> None]

WeeklyCronJob(day, hour, minute, task, args) ==
    [kind |-> "weekly", day |-> day, hour |-> hour, minute |-> minute,
     task |-> task, args |-> args, last_run |-> None]

\* The overdue test both should_run methods end with.
Overdue(job, t) ==
    IF ReplaceRaises(job.hour, job.minute) THEN "ValueError"
    ELSE IF DtGE(t, Replace(t, job.hour, job.minute)) THEN "True"
    ELSE "False"

\* should_run of a daily job without the "ran today" test
DailyShouldRunNoMemo(job, t) == Overdue(job, t)

\* DailyCronJob.should_run
DailyShouldRun(job, t) ==
    IF job.last_run # None /\ job.last_run.date = t.date THEN "False"
    ELSE Overdue(job, t)

\* should_run of a weekly job that compares last_run's weekday, not its date
WeeklyShouldRunByWeekday(job, t) ==
    IF job.last_run # None /\ Weekday(job.last_run) = Weekday(t) THEN "False"
    ELSE IF job.day # Weekday(t) THEN "False"
    ELSE Overdue(job, t)

\* WeeklyCronJob.should_run
WeeklyShouldRun(job, t) ==
    IF job.last_run # None /\ job.last_run.date = t.date THEN "False"
    ELSE IF job.day # Weekday(t) THEN "False"
    ELSE Overdue(job, t)

\* job.should_run(): "True", "False" or the exception it raises
should_run(job, t) ==
    IF job.kind = "daily" THEN DailyShouldRun(job, t) ELSE WeeklyShouldRun(job, t)

\* run() that starts the action without recording the time
run_keeps_last_run(job, t) == job

\* CronJob.run, first statement: self.last_run = datetime.now()
run_set_last_run(job, t) == [job EXCEPT !.last_run = t]

\* -------------------------------------------------------------- registry
add_daily_job(jobs, id, hour, minute, task, args) ==
    [k \in DOMAIN jobs \cup {id} |->
        IF k = id THEN DailyCronJob(hour, minute, task, args) ELSE jobs[k]]

add_weekly_job(jobs, id, day, hour, minute, task, args) ==
    [k \in DOMAIN jobs \cup {id} |->
        IF k = id THEN WeeklyCronJob(day, hour, minute, task, args) ELSE jobs[k]]

\* remove_job with its membership test inverted
remove_job_inverted(jobs, id) ==
    IF id \notin DOMAIN jobs THEN [k \in DOMAIN jobs \ {id} |-> jobs[k]] ELSE jobs

remove_job(jobs, id) ==
    IF id \in DOMAIN jobs THEN [k \in DOMAIN jobs \ {id} |-> jobs[k]] ELSE jobs

\* ----------------------------------------------------------------- store
Guilds == {"gA"}

EmptyDoc == [k \in {} |-> None]

\* db.get(doc_id=) / db.insert(Document({})): the document, created when absent
get_guild_doc(d, g) ==
    IF g \in DOMAIN d THEN [db |-> d, doc |-> d[g]]
    ELSE [db |-> [x \in DOMAIN d \cup {g} |-> IF x = g THEN EmptyDoc ELSE d[x]],
          doc |-> EmptyDoc]

\* doc[key] = value on the loaded copy
DocSet(doc, key, value) ==
    [k \in DOMAIN doc \cup {key} |-> IF k = key THEN value ELSE doc[k]]

\* db.update(fields, doc_ids=[g]): dict.update of the stored document, which
\* overwrites the keys of fields and keeps every other stored key
db_update(d, fields, g) ==
    [d EXCEPT ![g] = [k \in DOMAIN d[g] \cup DOMAIN fields |->
                        IF k \in DOMAIN fields THEN fields[k] ELSE d[g][k]]]

ScheduledTask(id, day, hour, minute) ==
    [id |-> id, day |-> day, hour |-> hour, minute |-> minute]

\* datastore.set_reminder_time / set_reset_time (key is the descriptor's name)
set_time(d, g, key, id, day, hour, minute) ==
    LET got == get_guild_doc(d, g)
    IN  db_update(got.db, DocSet(got.doc, key, ScheduledTask(id, day, hour, minute)), g)

\* datastore.get_reminder_time / get_reset_time: the descriptor or None
get_time(d, g, key) ==
    LET got == get_guild_doc(d, g)
    IN  IF key \in DOMAIN got.doc THEN got.doc[key] ELSE None

\* ------------------------------------------------- statuses and rosters
Members == {"m1", "m2"}

AVAILABLE_EMOJI == "Available"
UNAVAILABLE_EMOJI == "Unavailable"
DEFAULT_EMOJI == "Default"

EmptyMap == [m \in {} |-> DEFAULT_EMOJI]

\* doc.get(key, default)
doc_get(doc, key, default) == IF key \in DOMAIN doc THEN doc[key] ELSE default

\* datastore.get_member_statues
get_member_statues(d, g) == doc_get(get_guild_doc(d, g).doc, "member_statuses", EmptyMap)

\* datastore.get_static_role: guild.get_role of the persisted id, or None
get_static_role(d, g) ==
    LET doc == get_guild_doc(d, g).doc
    IN  IF "static_role" \in DOMAIN doc THEN [id |-> doc["static_role"]] ELSE None

\* an assignment that drops every other member's entry
replace_statuses(member_statuses, m, s) == [k \in {m} |-> s]

\* member_statuses[str(member.id)] = status
merge_status(member_statuses, m, s) == DocSet(member_statuses, m, s)

\* a test that lets a quiet update notify as well
notifies_always(quiet, g, observers) == g \in DOMAIN observers

\* a test without the presence check, as remove_member and reset_members have none
notifies_unguarded(quiet, g, observers) == ~quiet

\* a notification that reaches no observer
call_no_observer(w, g, statuses) == [w |-> w, raised |-> FALSE]

\* a pop that leaves the member's entry in place
pop_nothing(member_statuses, m) == member_statuses

\* member_statuses.pop(str(member.id), None)
pop(member_statuses, m) == [k \in DOMAIN member_statuses \ {m} |-> member_statuses[k]]

\* not quiet and guild.id in OBSERVERS
notifies(quiet, g, observers) == ~quiet /\ g \in DOMAIN observers

\* The state a store operation works on: the database, the observer table,
\* the Roster objects and, as history, the observer invocations of the step.
World ==
    [db |-> db, OBSERVERS |-> OBSERVERS, rosters |-> rosters, shown |-> shown,
     calls |-> <<>>]

RECURSIVE update_member_status(_, _, _, _, _)
RECURSIVE default_missing(_, _, _, _)

\* Roster.create_status_list, the loop over role.members: a member with no
\* entry in the roster's map is persisted as Default by a quiet update and
\* entered into the roster's map.
default_missing(w, g, r, todo) ==
    IF todo = {} THEN w
    ELSE LET m == CHOOSE x \in todo : TRUE
             w1 == IF m \in DOMAIN w.rosters[r].member_statuses THEN w
                   ELSE LET u == update_member_status(w, g, m, DEFAULT_EMOJI, TRUE).w
                        IN  [u EXCEPT !.rosters[r].member_statuses =
                                          DocSet(@, m, DEFAULT_EMOJI)]
         IN  default_missing(w1, g, r, todo \ {m})

\* Roster.create_status_list, the names: one line for each member of the
\* static role, with the status the roster's map has for the member
create_status_list(w, g, r) ==
    [m \in role_members[g] |-> w.rosters[r].member_statuses[m]]

\* message.edit(embed=...) is called: the message is to show this status
\* list, which the history keeps for the messages it watches
message_edit(w, message, names) ==
    [w EXCEPT !.shown = [k \in DOMAIN @ |-> IF k = message.id THEN names ELSE @[k]]]

\* Roster.update_roster_message up to its await of message.edit: the two
\* asserts (a message is bound, the static role is set), then the status list
update_roster_message(w, g, r) ==
    IF w.rosters[r].message = None \/ get_static_role(w.db, g) = None
    THEN [w |-> w, raised |-> TRUE]
    ELSE LET w1 == default_missing(w, g, r, role_members[g])
         IN  [w |-> message_edit(w1, w1.rosters[r].message, create_status_list(w1, g, r)),
              raised |-> FALSE]

\* Roster.update_all_member_statuses, the callback in OBSERVERS
update_all_member_statuses(w, g, r, statuses) ==
    update_roster_message(
        [w EXCEPT !.rosters[r].member_statuses = statuses,
                  !.calls = Append(@, [roster |-> r, statuses |-> statuses])],
        g, r)

\* await OBSERVERS[guild.id](member_statuses): the lookup raises KeyError
\* when the guild has no observer
call_observer(w, g, statuses) ==
    IF g \notin DOMAIN w.OBSERVERS THEN [w |-> w, raised |-> TRUE]
    ELSE update_all_member_statuses(w, g, w.OBSERVERS[g], statuses)

\* datastore.update_member_status up to the first suspension: the new world,
\* whether the observer raised, and the persisted map right after db.update
update_member_status(w, g, m, s, quiet) ==
    LET got == get_guild_doc(w.db, g)
        member_statuses == merge_status(doc_get(got.doc, "member_statuses", EmptyMap), m, s)
        doc == DocSet(got.doc, "member_statuses", member_statuses)
        w1 == [w EXCEPT !.db = db_update(got.db, doc, g)]
        wrote == get_member_statues(w1.db, g)
    IN  IF notifies(quiet, g, w.OBSERVERS)
        THEN LET o == call_observer(w1, g, member_statuses)
             IN  [w |-> o.w, raised |-> o.raised, wrote |-> wrote]
        ELSE [w |-> w1, raised |-> FALSE, wrote |-> wrote]

\* datastore.remove_member up to the first suspension: the entry is popped
\* from the loaded map, the document is handed to db.update, and the observer
\* is looked up with no presence check
remove_member(w, g, m) ==
    LET got == get_guild_doc(w.db, g)
        member_statuses == pop(doc_get(got.doc, "member_statuses", EmptyMap), m)
        doc == IF "member_statuses" \in DOMAIN got.doc
               THEN DocSet(got.doc, "member_statuses", member_statuses)
               ELSE got.doc
        w1 == [w EXCEPT !.db = db_update(got.db, doc, g)]
        o == call_observer(w1, g, member_statuses)
    IN  [w |-> o.w, raised |-> o.raised, wrote |-> get_member_statues(w1.db, g)]

\* datastore.reset_members up to the first suspension: the map is replaced by
\* an empty one, and the observer is looked up with no presence check
reset_members(w, g) ==
    LET got == get_guild_doc(w.db, g)
        doc == DocSet(got.doc, "member_statuses", EmptyMap)
        w1 == [w EXCEPT !.db = db_update(got.db, doc, g)]
        o == call_observer(w1, g, EmptyMap)
    IN  [w |-> o.w, raised |-> o.raised, wrote |-> get_member_statues(w1.db, g)]

\* datastore.set_static_role: the loaded document loses member_statuses and
\* gets static_role, and is handed to db.update
set_static_role(d, g, role) ==
    LET got == get_guild_doc(d, g)
        loaded == [k \in DOMAIN got.doc \ {"member_statuses"} |-> got.doc[k]]
    IN  db_update(got.db, DocSet(loaded, "static_role", role.id), g)

\* datastore.set_admin_role: as set_static_role, with the key admin_role
set_admin_role(d, g, role) ==
    LET got == get_guild_doc(d, g)
        loaded == [k \in DOMAIN got.doc \ {"member_statuses"} |-> got.doc[k]]
    IN  db_update(got.db, DocSet(loaded, "admin_role", role.id), g)

\* datastore.get_admin_role: guild.get_role of the persisted id, or None
get_admin_role(d, g) ==
    LET doc == get_guild_doc(d, g).doc
    IN  IF "admin_role" \in DOMAIN doc THEN [id |-> doc["admin_role"]] ELSE None

\* a check that lets everyone pass while the guild has no admin role
is_admin_when_set(d, g, owner, roles) ==
    [db |-> get_guild_doc(d, g).db,
     allowed |-> owner \/ get_admin_role(d, g) = None \/ get_admin_role(d, g) \in roles]

\* context.is_admin, the wrapper up to its decision: get_admin_role reads the
\* guild's document (get_guild_doc creates it when absent); the member passes
\* as the bot owner or with the admin role among member.roles
is_admin(d, g, owner, roles) ==
    [db |-> get_guild_doc(d, g).db,
     allowed |-> owner \/ get_admin_role(d, g) \in roles]

\* datastore.force_update up to the first suspension
force_update(w, g) ==
    IF g \notin DOMAIN w.OBSERVERS THEN [w |-> w, raised |-> FALSE]
    ELSE update_all_member_statuses(w, g, w.OBSERVERS[g], get_member_statues(w.db, g))

\* a registration that keeps the observer a guild already has
register_keeps_first(observers, g, r) ==
    IF g \in DOMAIN observers THEN observers
    ELSE [k \in DOMAIN observers \cup {g} |-> IF k = g THEN r ELSE observers[k]]

\* datastore.register_status_observer: OBSERVERS[guild.id] = callback
register_status_observer(observers, g, r) ==
    [k \in DOMAIN observers \cup {g} |-> IF k = g THEN r ELSE observers[k]]

\* A Roster that is no guild's observer and that no suspended on_ready holds
\* is referenced by nothing that reads it again: the model stops tracking it.
Tracked(w, held) ==
    [w EXCEPT !.rosters =
        [k \in {o \in DOMAIN @ : o \in held \/ \E x \in DOMAIN w.OBSERVERS :
                                                    w.OBSERVERS[x] = o} |-> @[k]]]

\* Roster.__init__
Roster == [message |-> None, member_statuses |-> EmptyMap]

\* the Roster objects and one more
with_roster(rs, r, roster) ==
    [k \in DOMAIN rs \cup {r} |-> IF k = r THEN roster ELSE rs[k]]

\* Roster.set_guild: the persisted map is loaded, the observer registered,
\* and the message rendered when one is bound
set_guild(w, g, r) ==
    LET w1 == [w EXCEPT !.rosters[r].member_statuses = get_member_statues(w.db, g),
                        !.OBSERVERS = register_status_observer(@, g, r)]
    IN  IF w1.rosters[r].message # None THEN update_roster_message(w1, g, r)
        ELSE [w |-> w1, raised |-> FALSE]

\* datastore.get_roster_message_id: the persisted reference or None; it does
\* not create the guild's document
get_roster_message_id(d, g) ==
    IF g \notin DOMAIN d \/ "roster_message" \notin DOMAIN d[g] THEN None
    ELSE d[g]["roster_message"]

\* cronjobs.clear_jobs, as the specification describes it: empties the registry
clear_jobs(jobs) == [k \in {} |-> None]

\* ctx.client.guilds
GuildOrder == <<"gA">>

\* the name of a new Roster object that on_ready creates (-1, -2, ...)
new_roster(rs) ==
    0 - (CHOOSE k \in 1..(Cardinality(DOMAIN rs) + 1) :
            /\ (0 - k) \notin DOMAIN rs
            /\ \A j \in 1..(k - 1) : (0 - j) \in DOMAIN rs)

RECURSIVE ready_scan(_, _)

\* on_ready, the for loop from the guild at the head of todo up to the next
\* suspension: a guild with no roster message is skipped (continue); for the
\* first one that has a reference, load_roster_message and from_roster_info
\* create a Roster, call set_guild, and await channel.fetch_message
ready_scan(w, todo) ==
    IF todo = <<>> THEN [w |-> w, g |-> "none", roster |-> 0, message |-> 0, todo |-> <<>>]
    ELSE LET g == Head(todo)
             info == get_roster_message_id(w.db, g)
             r == new_roster(w.rosters)
         IN  IF info = None THEN ready_scan(w, Tail(todo))
             ELSE [w |-> set_guild([w EXCEPT !.rosters = with_roster(@, r, Roster)], g, r).w,
                   g |-> g, roster |-> r, message |-> info.id, todo |-> Tail(todo)]

\* on_ready, one of the two blocks after load_roster_message: the job of a
\* persisted descriptor is added under a new id, which is persisted
restore_job(st, g, key, task) ==
    LET t == get_time(st.db, g, key)
    IN  IF t = None THEN st
        ELSE [jobs |-> add_weekly_job(st.jobs, st.next_id, t.day, t.hour, t.minute, task, g),
              db |-> set_time(st.db, g, key, st.next_id, t.day, t.hour, t.minute),
              next_id |-> st.next_id + 1]

\* datastore.save_roster_message_id
save_roster_message_id(d, g, message) ==
    LET got == get_guild_doc(d, g)
    IN  db_update(got.db, DocSet(got.doc, "roster_message",
                                 [channel_id |-> "channel", id |-> message.id]), g)

\* where a handler stands after a store operation: the observer raised, the
\* observer is suspended in message.edit, or nothing was awaited
After_op(out) ==
    IF out.raised THEN "raised" ELSE IF out.w.calls # <<>> THEN "edit" ELSE "returned"

\* a handler: the fields it does not use keep these values
Handler == [op |-> "none", pc |-> "none", g |-> "none", m |-> "none", s |-> "none",
            message |-> 0, others |-> EmptyMap, roster |-> 0, todo |-> <<>>,
            edit |-> None]

\* The message.edit request that a render of Roster r has left in flight: the
\* message and the status list of the embed.  It is kept for the watched
\* messages.
Request(w, g, r) ==
    IF w.rosters[r].message = None THEN None
    ELSE IF w.rosters[r].message.id \notin DOMAIN surface THEN None
    ELSE [message |-> w.rosters[r].message.id, names |-> create_status_list(w, g, r)]

\* the request of the render that the guild's observer did in a store operation
Sent(out, g) == IF After_op(out) = "edit" THEN Request(out.w, g, out.w.OBSERVERS[g]) ELSE None

\* Discord applies the handler's message.edit request, which then returns:
\* requests in flight at the same time are applied in the order they complete
Landed(h) ==
    IF h.edit = None THEN surface
    ELSE [surface EXCEPT ![h.edit.message] = h.edit.names]

\* no roster, no observer, no role member, no handler in flight
StoreStart ==
    /\ OBSERVERS = [g \in {} |-> 0]
    /\ rosters = [r \in {} |-> None]
    /\ next_message = 1
    /\ role_members = [g \in Guilds |-> {}]
    /\ shown = [k \in {} |-> EmptyMap]
    /\ surface = [k \in {} |-> EmptyMap]
    /\ procs = EmptyBag

\* ------------------------------------------------------------- scheduler
\* an on_ready that creates the loop's task every time it runs
start_tasks_always(started, n) == n + 1

\* on_ready, `if not _tasks_started`: asyncio.create_task(start_cron_jobs())
\* on the first on_ready of the process and on no later one; the count of
\* the tasks created so far
start_tasks(started, n) == IF started THEN n ELSE n + 1

\* The values the set_reminder / set_reset commands are given: a Day, and any
\* integers as hour and minute (the command declares them as int, no range).
CmdDays == {0}
CmdHours == {LastHour, LastHour + 1}
CmdMinutes == {0}

\* the times of day add_daily_job is called with
DailyTimes == {<<0, LastMinute>>}

JobIds == 1..MaxJobsWide

NoProbe == [op |-> "none"]

Init ==
    /\ now = Datetime(0, 0, 0)
    /\ JOBS = [k \in {} |-> None]
    /\ next_id = 1
    /\ id_limit = MaxJobs
    /\ loop = "NotStarted"
    /\ loops = 0
    /\ tasks = [k \in {} |-> None]
    /\ dispatch_log = [k \in {} |-> None]
    /\ db = [g \in {} |-> None]
    /\ probe = NoProbe
    /\ StoreStart

\* on_ready, the first of the process, on an empty datastore: the registry is
\* empty and no guild has a roster to load, so all it changes is
\* asyncio.create_task(start_cron_jobs())
StartCronJobs ==
    /\ loop = "NotStarted"
    /\ loop' = "Running"
    /\ loops' = start_tasks(loop # "NotStarted", loops)
    /\ UNCHANGED <<now, JOBS, next_id, tasks, dispatch_log, db, probe, id_limit, store_vars>>

\* The wall clock before the loop starts.  A running loop's sleep is what
\* lets time pass (Tick); once the loop's task has ended, nothing reads the
\* clock again except the first step of the tasks it had created.
Advance ==
    /\ loop = "NotStarted"
    /\ InCalendar(NextInstant(now))
    /\ now' = NextInstant(now)
    /\ UNCHANGED <<JOBS, next_id, loop, tasks, dispatch_log, db, probe, id_limit, loops, store_vars>>

\* The for loop of start_cron_jobs reaches a job when no earlier one raised.
Reached(jobs, t) ==
    {id \in DOMAIN jobs :
        \A k \in DOMAIN jobs : k < id => should_run(jobs[k], t) # "ValueError"}

DueJobs(jobs, t) == {id \in DOMAIN jobs : should_run(jobs[id], t) = "True"}

\* the jobs the pass hands to asyncio.create_task
Dispatched(jobs, t) == Reached(jobs, t) \cap DueJobs(jobs, t)

\* should_run raises inside the while loop, which has no try: the loop's task ends
PassRaises(jobs, t) == \E id \in DOMAIN jobs : should_run(jobs[id], t) = "ValueError"

NoTaskCreated == \A id \in DOMAIN tasks : tasks[id].st # "created"

LogDispatch(log, ids, t) ==
    [id \in DOMAIN log \cup ids |->
        IF id \notin ids THEN log[id]
        ELSE IF id \in DOMAIN log /\ log[id].date = t.date
             THEN [date |-> t.date, count |-> log[id].count + 1]
             ELSE [date |-> t.date, count |-> 1]]

\* One round of start_cron_jobs: asyncio.sleep(60) returns k minutes later,
\* then the pass over JOBS.items().  The pass has no await in it, so it is one
\* step; the tasks it creates take their first step (StartRun) before the
\* next sleep ends.
Tick ==
    \E k \in 1..MaxSleep :
        /\ loop = "Running"
        /\ NoTaskCreated
        /\ InCalendar(After(now, k))
        /\ now' = After(now, k)
        /\ LET ids == Dispatched(JOBS, now')
           IN  /\ tasks' = [id \in DOMAIN tasks \cup ids |->
                              IF id \in ids THEN [st |-> "created", started |-> None]
                              ELSE tasks[id]]
               /\ dispatch_log' = LogDispatch(dispatch_log, ids, now')
        /\ loop' = IF PassRaises(JOBS, now') THEN "Stopped" ELSE "Running"
        /\ UNCHANGED <<JOBS, next_id, db, probe, id_limit, loops, store_vars>>

\* CronJob.run up to its await: last_run is set, then the action starts
StartRun(id) ==
    /\ id \in DOMAIN tasks
    /\ tasks[id].st = "created"
    /\ tasks' = [tasks EXCEPT ![id] = [st |-> "running", started |-> now]]
    /\ JOBS' = IF id \in DOMAIN JOBS
               THEN [JOBS EXCEPT ![id] = run_set_last_run(JOBS[id], now)]
               ELSE JOBS
    /\ UNCHANGED <<now, next_id, loop, dispatch_log, db, probe, id_limit, loops, store_vars>>

\* await self.task(*self.args) returns
TaskDone(id) ==
    /\ id \in DOMAIN tasks
    /\ tasks[id].st = "running"
    /\ tasks' = [tasks EXCEPT ![id].st = "done"]
    /\ UNCHANGED <<now, JOBS, next_id, loop, dispatch_log, db, probe, id_limit, loops, store_vars>>

\* await self.task(*self.args) raises: the exception ends the job's own task
TaskFail(id) ==
    /\ id \in DOMAIN tasks
    /\ tasks[id].st = "running"
    /\ tasks' = [tasks EXCEPT ![id].st = "failed"]
    /\ UNCHANGED <<now, JOBS, next_id, loop, dispatch_log, db, probe, id_limit, loops, store_vars>>

\* A task of a job that has left the registry writes only to its own job
\* object, which nothing reads any more: the model stops tracking it.
Forget(f, ids) == [id \in DOMAIN f \cap ids |-> f[id]]

\* commands.set_reminder / set_reset up to the reply: remove the job of the
\* persisted descriptor, add the new job, persist its descriptor.  Nothing
\* in it suspends, so it is one step.
SetSchedule(g, key, task, day, hour, minute) ==
    /\ loop # "NotStarted"
    /\ next_id <= id_limit
    /\ LET current == get_time(db, g, key)
           kept == IF current # None THEN remove_job(JOBS, current.id) ELSE JOBS
       IN  /\ JOBS' = add_weekly_job(kept, next_id, day, hour, minute, task, g)
           /\ db' = set_time(db, g, key, next_id, day, hour, minute)
           /\ tasks' = Forget(tasks, DOMAIN kept)
           /\ dispatch_log' = Forget(dispatch_log, DOMAIN kept)
    /\ next_id' = next_id + 1
    /\ UNCHANGED <<now, loop, probe, id_limit, loops, store_vars>>

set_reminder ==
    \E g \in Guilds, day \in CmdDays, hour \in CmdHours, minute \in CmdMinutes :
        SetSchedule(g, "weekly_reminder", "cron_send_reminder", day, hour, minute)

set_reset ==
    \E g \in Guilds, day \in CmdDays, hour \in CmdHours, minute \in CmdMinutes :
        SetSchedule(g, "weekly_reset", "cron_reset_roster", day, hour, minute)

\* cronjobs.add_daily_job
AddDaily ==
    /\ loop # "NotStarted"
    /\ next_id <= id_limit
    /\ \E t \in DailyTimes :
          JOBS' = add_daily_job(JOBS, next_id, t[1], t[2], "task", "args")
    /\ next_id' = next_id + 1
    /\ UNCHANGED <<now, loop, tasks, dispatch_log, db, probe, id_limit, loops, store_vars>>

Next ==
    \/ StartCronJobs
    \/ Advance
    \/ Tick
    \/ \E id \in JobIds : StartRun(id)
    \/ \E id \in JobIds : TaskDone(id)
    \/ \E id \in JobIds : TaskFail(id)
    \/ set_reminder
    \/ set_reset
    \/ AddDaily

Spec == Init /\ [][Next]_vars

\* the same machine with one more job id to hand out
WideInit ==
    /\ now = Datetime(0, 0, 0)
    /\ JOBS = [k \in {} |-> None]
    /\ next_id = 1
    /\ id_limit = MaxJobsWide
    /\ loop = "NotStarted"
    /\ loops = 0
    /\ tasks = [k \in {} |-> None]
    /\ dispatch_log = [k \in {} |-> None]
    /\ db = [g \in {} |-> None]
    /\ probe = NoProbe
    /\ StoreStart

WideSpec == WideInit /\ [][Next]_vars

\* ------------------------------------------------------- scheduler claims
\* minutes since midnight
TimeOfDay(h, m) == h * (LastMinute + 1) + m

RanToday(job) == job.last_run # None /\ job.last_run.date = now.date

\* the loop can take its next pass (no task is waiting for its first step)
Polling == loop = "Running" /\ NoTaskCreated

\* C1: no double-fire per day.  No tick dispatches a job (daily or weekly) a
\* second time on a calendar date, and once a tick has dispatched a job on a
\* date, should_run of that job is false at every later poll of that date.
C1_NoDoubleFire ==
    \A id \in DOMAIN dispatch_log :
        /\ dispatch_log[id].count <= 1
        /\ (id \in DOMAIN JOBS /\ dispatch_log[id].date = now.date /\ Polling)
              => should_run(JOBS[id], now) = "False"

\* a daily and a weekly job were dispatched today, and the loop has polled
\* again on the same date
C1_Witness ==
    /\ Polling
    /\ \E a, b \in DOMAIN JOBS :
          /\ JOBS[a].kind = "daily" /\ JOBS[b].kind = "weekly"
          /\ \A id \in {a, b} :
                /\ id \in DOMAIN dispatch_log
                /\ dispatch_log[id].date = now.date
                /\ RanToday(JOBS[id])
                /\ JOBS[id].last_run # now

\* C3: a weekly job with a valid time is due exactly when today is its
\* weekday, the time of day is at or after its configured time and it has
\* not run today; so (MONDAY, h:m) is not due on Monday before h:m, is due at
\* h:m, is not due for the rest of that Monday once run() has started, on no
\* Tuesday..Sunday, and is due again on the next Monday from h:m on.
C3_WeeklyCycle ==
    \A id \in DOMAIN JOBS :
        LET job == JOBS[id]
        IN  (job.kind = "weekly" /\ ~ReplaceRaises(job.hour, job.minute)) =>
              should_run(job, now) =
                IF /\ Weekday(now) = job.day
                   /\ TimeOfDay(now.hour, now.minute) >= TimeOfDay(job.hour, job.minute)
                   /\ ~RanToday(job)
                THEN "True" ELSE "False"

\* a weekly job that ran one week ago is due again
C3_Witness ==
    \E id \in DOMAIN JOBS :
        /\ JOBS[id].kind = "weekly"
        /\ JOBS[id].last_run # None
        /\ JOBS[id].last_run.date + DaysPerWeek = now.date
        /\ should_run(JOBS[id], now) = "True"

\* C5: run() sets last_run before the action starts.  While a job's action
\* is running or has failed, the job's last_run is the time run() started;
\* the step in which the action fails changes no job of the registry; only
\* a command removes the job; and no tick of the same date dispatches it again.
C5_Step ==
    \A id \in DOMAIN tasks \cap DOMAIN JOBS :
        tasks[id].st \in {"running", "failed"} =>
            /\ JOBS[id].last_run = tasks[id].started
            /\ (next_id' = next_id) => id \in DOMAIN JOBS'
            /\ (id \in DOMAIN tasks' /\ tasks'[id].st = "created")
                  => now'.date > tasks[id].started.date
            /\ (tasks[id].st = "running" /\ id \in DOMAIN tasks' /\ tasks'[id].st = "failed")
                  => JOBS' = JOBS

C5_FailureIsolated == [][C5_Step]_vars

\* a job's action has failed, the loop has polled again on the same date,
\* and another job is registered
C5_Witness ==
    /\ Polling
    /\ \E id \in DOMAIN tasks \cap DOMAIN JOBS :
          /\ tasks[id].st = "failed"
          /\ JOBS[id].last_run = tasks[id].started
          /\ now.date = tasks[id].started.date
          /\ now # tasks[id].started
          /\ DOMAIN JOBS # {id}

\* C6: the loop never stops on its own: no pass moves it from Running to
\* Stopped, whatever jobs the commands have registered.
C6_LoopNeverStops == [][loop = "Running" => loop' = "Running"]_vars

\* C7: on a tick where several jobs are due, every due job is dispatched
\* (handed to asyncio.create_task) on that tick.  A running loop's tick is
\* the step that moves the clock.
C7_AllDueDispatched ==
    [][(loop = "Running" /\ now' # now /\ Cardinality(DueJobs(JOBS, now')) >= 2)
          => \A id \in DueJobs(JOBS, now') :
                id \in DOMAIN tasks' /\ tasks'[id].st = "created"]_vars

\* ---------------------------------------------------- registry functions
\* should_run and remove_job applied to every registry and clock of the
\* bounded sets: job 1 is any daily or weekly job, with a time of day inside
\* or just outside the valid ranges and any last_run that is not in the
\* future; job 2, when present, ran at the current instant.
FnDays == 0..(DaysPerWeek - 1)
FnHours == 0..(LastHour + 1)
FnMinutes == 0..(LastMinute + 1)

Past(t) == {None} \cup {i \in Instants : DtGE(t, i)}

FnJobs(t) ==
    {[WeeklyCronJob(d, h, m, "task", "args") EXCEPT !.last_run = lr] :
        d \in FnDays, h \in FnHours, m \in FnMinutes, lr \in Past(t)}
    \cup
    {[DailyCronJob(h, m, "task", "args") EXCEPT !.last_run = lr] :
        h \in FnHours, m \in FnMinutes, lr \in Past(t)}

FnRegistries(t) ==
    {[k \in {1} |-> j] : j \in FnJobs(t)}
    \cup
    {[k \in {1, 2} |-> IF k = 1 THEN j
                       ELSE run_set_last_run(DailyCronJob(0, 0, "task", "args"), t)] :
        j \in FnJobs(t)}

FnInit ==
    /\ now \in Instants
    /\ JOBS \in FnRegistries(now)
    /\ next_id = MaxJobs + 1
    /\ id_limit = MaxJobs
    /\ loop = "NotStarted"
    /\ loops = 0
    /\ tasks = [k \in {} |-> None]
    /\ dispatch_log = [k \in {} |-> None]
    /\ db = [g \in {} |-> None]
    /\ probe = NoProbe
    /\ StoreStart

\* job.should_run() at the current clock
FnShouldRun(id) ==
    /\ id \in DOMAIN JOBS
    /\ probe' = [op |-> "should_run", id |-> id, result |-> should_run(JOBS[id], now)]
    /\ UNCHANGED <<now, JOBS, next_id, loop, tasks, dispatch_log, db, id_limit, loops, store_vars>>

\* cronjobs.remove_job(id), for ids in the registry and ids never added
FnRemove(id) ==
    /\ JOBS' = remove_job(JOBS, id)
    /\ probe' = [op |-> "remove_job", id |-> id, before |-> JOBS]
    /\ UNCHANGED <<now, next_id, loop, tasks, dispatch_log, db, id_limit, loops, store_vars>>

FnNext ==
    \/ \E id \in JobIds : FnShouldRun(id)
    \/ \E id \in JobIds : FnRemove(id)

FnSpec == FnInit /\ [][FnNext]_vars

\* the job the latest should_run was asked of
Probed == JOBS[probe.id]

\* C2: a weekly job with last_run unset (and a valid time of day) is due if
\* and only if today's weekday is its day and the time of day is at or after
\* its configured time; the comparison is non-strict.
C2_WeeklyUnsetDue ==
    (/\ probe.op = "should_run"
     /\ Probed.kind = "weekly"
     /\ Probed.last_run = None
     /\ ~ReplaceRaises(Probed.hour, Probed.minute))
    => /\ probe.result \in {"True", "False"}
       /\ probe.result = "True" <=>
            /\ Weekday(now) = Probed.day
            /\ TimeOfDay(now.hour, now.minute) >= TimeOfDay(Probed.hour, Probed.minute)

\* a never-run weekly job asked exactly at its configured minute is due
C2_Witness ==
    /\ probe.op = "should_run"
    /\ Probed.kind = "weekly"
    /\ Probed.last_run = None
    /\ Weekday(now) = Probed.day
    /\ now.hour = Probed.hour /\ now.minute = Probed.minute
    /\ Probed.minute > 0
    /\ probe.result = "True"

\* C4: a daily job (with a valid time of day) is not due when last_run is
\* on today's date, and otherwise is due if and only if the time of day is
\* at or after its configured time.
C4_DailyDue ==
    (/\ probe.op = "should_run"
     /\ Probed.kind = "daily"
     /\ ~ReplaceRaises(Probed.hour, Probed.minute))
    => probe.result =
         IF Probed.last_run # None /\ Probed.last_run.date = now.date THEN "False"
         ELSE IF TimeOfDay(now.hour, now.minute) >= TimeOfDay(Probed.hour, Probed.minute)
              THEN "True" ELSE "False"

\* a daily job that ran earlier today is asked after its configured time
C4_Witness ==
    /\ probe.op = "should_run"
    /\ Probed.kind = "daily"
    /\ Probed.last_run # None
    /\ Probed.last_run.date = now.date
    /\ TimeOfDay(now.hour, now.minute) > TimeOfDay(Probed.hour, Probed.minute)
    /\ probe.result = "False"

\* C8: remove_job(id) of an id that is not registered leaves the registry as
\* it was; of a registered id it removes that job and leaves every other
\* job, last_run included, as it was.
C8_RemoveIdempotent ==
    probe.op = "remove_job" =>
        IF probe.id \in DOMAIN probe.before
        THEN /\ DOMAIN JOBS = DOMAIN probe.before \ {probe.id}
             /\ \A k \in DOMAIN JOBS : JOBS[k] = probe.before[k]
        ELSE JOBS = probe.before

\* remove_job was called for an id that is not in a non-empty registry whose
\* job has run
C8_Witness ==
    /\ probe.op = "remove_job"
    /\ probe.id \notin DOMAIN probe.before
    /\ JOBS = probe.before
    /\ \E k \in DOMAIN JOBS : JOBS[k].last_run # None

\* --------------------------------------------------------- store handlers
\* The handlers run on one event loop: a handler runs from one suspension
\* (an await of Discord I/O) to the next as one step, and any other handler
\* may run in between.  procs holds the handlers that are suspended.
\* A suspended update keeps, as history, the other members' entries as they
\* were persisted when it was called.

\* the status commands and buttons set one of these (maybe is handled as
\* available and unavailable are)
CmdStatuses == {AVAILABLE_EMOJI, UNAVAILABLE_EMOJI}

Suspended == BagToSet(procs)

\* one more handler can be in flight
CanStart == BagCardinality(procs) < MaxProcs

Adopt(w) ==
    /\ db' = w.db
    /\ OBSERVERS' = w.OBSERVERS
    /\ rosters' = w.rosters
    /\ shown' = w.shown

\* a map without member m's entry
Without(map, m) == [k \in DOMAIN map \ {m} |-> map[k]]

\* the handler h is suspended at pc, or has returned or raised
Suspend(pc, h) == IF pc = "edit" THEN procs (+) SetToBag({h}) ELSE procs

\* Discord: a member is given the guild's static role
JoinRole(g, m) ==
    /\ m \notin role_members[g]
    /\ role_members' = [role_members EXCEPT ![g] = @ \cup {m}]
    /\ probe' = NoProbe
    /\ UNCHANGED <<sched_vars, db, OBSERVERS, rosters, next_message, shown, surface, procs>>

\* commands.available / unavailable, the roster buttons and the reminder
\* buttons: datastore.update_member_status(guild, member, status)
UpdateStatus(g, m, s) ==
    /\ CanStart
    /\ LET out == update_member_status(World, g, m, s, FALSE)
           before == get_member_statues(db, g)
       IN  /\ Adopt(out.w)
           /\ procs' = Suspend(After_op(out),
                  [Handler EXCEPT !.op = "update_member_status", !.pc = "edit",
                                  !.g = g, !.m = m, !.s = s,
                                  !.others = Without(before, m),
                                  !.edit = Sent(out, g)])
           /\ probe' = [op |-> "update_member_status", pc |-> After_op(out),
                        g |-> g, m |-> m, s |-> s, before |-> before,
                        observed |-> g \in DOMAIN OBSERVERS,
                        wrote |-> out.wrote, calls |-> out.w.calls]
    /\ UNCHANGED <<sched_vars, next_message, role_members, surface>>

\* commands.static_role: set_static_role, then force_update
StaticRole(g) ==
    /\ CanStart
    /\ LET out == force_update([World EXCEPT !.db = set_static_role(db, g, [id |-> "role"])], g)
       IN  /\ Adopt(out.w)
           /\ procs' = Suspend(After_op(out),
                  [Handler EXCEPT !.op = "static_role", !.pc = "edit", !.g = g,
                                  !.edit = Sent(out, g)])
    /\ probe' = NoProbe
    /\ UNCHANGED <<sched_vars, next_message, role_members, surface>>

\* commands.reset, invoked by an administrator: datastore.reset_members,
\* then the reply.  The probe keeps whether the step before was a reset of
\* the same guild or the return of one.
ResetNow(g) ==
    /\ CanStart
    /\ LET out == reset_members(World, g)
       IN  /\ Adopt(out.w)
           /\ procs' = Suspend(After_op(out),
                  [Handler EXCEPT !.op = "reset_members", !.pc = "edit", !.g = g,
                                  !.edit = Sent(out, g)])
           /\ probe' = [op |-> "reset_members", pc |-> After_op(out), g |-> g,
                        before |-> get_member_statues(db, g),
                        observed |-> g \in DOMAIN OBSERVERS,
                        wrote |-> out.wrote, calls |-> out.w.calls,
                        again |-> probe.op \in {"reset_members", "reset_returned"}
                                    /\ probe.g = g]
    /\ UNCHANGED <<sched_vars, next_message, role_members, surface>>

\* datastore.remove_member (nothing in the repository calls it)
RemoveMember(g, m) ==
    /\ CanStart
    /\ LET out == remove_member(World, g, m)
       IN  /\ Adopt(out.w)
           /\ procs' = Suspend(After_op(out),
                  [Handler EXCEPT !.op = "remove_member", !.pc = "edit", !.g = g, !.m = m,
                                  !.edit = Sent(out, g)])
           /\ probe' = [op |-> "remove_member", pc |-> After_op(out), g |-> g, m |-> m,
                        before |-> get_member_statues(db, g),
                        observed |-> g \in DOMAIN OBSERVERS,
                        wrote |-> out.wrote, calls |-> out.w.calls]
    /\ UNCHANGED <<sched_vars, next_message, role_members, surface>>

\* message.edit returns to update_roster_message, and the observer to the
\* store operation that awaited it, which returns to its handler
EditDone(h) ==
    /\ h \in Suspended
    /\ h.pc = "edit"
    /\ h.op \in {"update_member_status", "static_role", "reset_members", "remove_member"}
    /\ procs' = procs (-) SetToBag({h})
    /\ probe' = IF h.op = "update_member_status"
                THEN [op |-> "update_returned", g |-> h.g, m |-> h.m,
                      s |-> h.s, others |-> h.others]
                ELSE IF h.op = "reset_members"
                THEN [op |-> "reset_returned", g |-> h.g]
                ELSE NoProbe
    /\ surface' = Landed(h)
    /\ UNCHANGED <<sched_vars, db, OBSERVERS, rosters, next_message, role_members, shown>>

\* commands.print_roster up to channel.send: without a static role it
\* replies and returns
PrintStart(g) ==
    /\ CanStart
    /\ next_message <= MaxMessages
    /\ db' = get_guild_doc(db, g).db
    /\ procs' = IF get_static_role(db, g) = None THEN procs
                ELSE procs (+) SetToBag({[Handler EXCEPT !.op = "print_roster",
                                                         !.pc = "send", !.g = g]})
    /\ probe' = NoProbe
    /\ UNCHANGED <<sched_vars, OBSERVERS, rosters, next_message, role_members, surface, shown>>

\* channel.send returns the new message; Roster.inject binds it, loads the
\* persisted map (set_guild), registers the observer and renders.
PrintInject(h) ==
    /\ h \in Suspended
    /\ h.pc = "send"
    /\ LET g == h.g
           r == next_message
           made == with_roster(rosters, r, [Roster EXCEPT !.message = [id |-> r]])
           out == set_guild([World EXCEPT !.rosters = made], g, r)
           rest == procs (-) SetToBag({h})
       IN  /\ Adopt(Tracked(out.w, {}))
           /\ procs' = IF out.raised THEN rest
                       ELSE rest (+) SetToBag({[h EXCEPT !.message = r, !.pc = "edit",
                                                         !.edit = Request(out.w, g, r)]})
           /\ probe' = [op |-> "register", g |-> g, roster |-> r, table |-> OBSERVERS]
    /\ next_message' = next_message + 1
    /\ UNCHANGED <<sched_vars, role_members, surface>>

\* message.edit returns; save_roster_message_id, then the reply
PrintSave(h) ==
    /\ h \in Suspended
    /\ h.pc = "edit"
    /\ h.op = "print_roster"
    /\ db' = save_roster_message_id(db, h.g, [id |-> h.message])
    /\ procs' = procs (-) SetToBag({h})
    /\ probe' = NoProbe
    /\ surface' = Landed(h)
    /\ UNCHANGED <<sched_vars, OBSERVERS, rosters, next_message, role_members, shown>>

StoreNext ==
    \/ \E g \in Guilds, m \in Members : JoinRole(g, m)
    \/ \E g \in Guilds, m \in Members, s \in CmdStatuses : UpdateStatus(g, m, s)
    \/ \E g \in Guilds : StaticRole(g)
    \/ \E h \in Suspended : EditDone(h)
    \/ \E g \in Guilds : PrintStart(g)
    \/ \E h \in Suspended : PrintInject(h)
    \/ \E h \in Suspended : PrintSave(h)

StoreSpec == Init /\ [][StoreNext]_vars

\* The store with its two removing operations: members answer Available,
\* an administrator resets, entries are removed, rosters are printed.
ResetNext ==
    \/ \E g \in Guilds, m \in Members : JoinRole(g, m)
    \/ \E g \in Guilds, m \in Members : UpdateStatus(g, m, AVAILABLE_EMOJI)
    \/ \E g \in Guilds : StaticRole(g)
    \/ \E g \in Guilds : ResetNow(g)
    \/ \E g \in Guilds, m \in Members : RemoveMember(g, m)
    \/ \E h \in Suspended : EditDone(h)
    \/ \E g \in Guilds : PrintStart(g)
    \/ \E h \in Suspended : PrintInject(h)
    \/ \E h \in Suspended : PrintSave(h)

ResetSpec == Init /\ [][ResetNext]_vars

\* ------------------------------------------------------------ on_ready
\* the Rosters that the suspended on_ready handlers of a bag hold
Held(bag) == {h.roster : h \in {x \in BagToSet(bag) : x.op = "on_ready"}}

\* on_ready up to its first suspension: the loop is started once, the
\* registry cleared, and the guilds are gone through
OnReady ==
    /\ CanStart
    /\ LET scan == ready_scan(World, GuildOrder)
           more == IF scan.g = "none" THEN procs
                   ELSE procs (+) SetToBag({[Handler EXCEPT
                            !.op = "on_ready", !.pc = "fetch", !.g = scan.g,
                            !.roster = scan.roster, !.message = scan.message,
                            !.todo = scan.todo]})
       IN  /\ Adopt(Tracked(scan.w, Held(more)))
           /\ procs' = more
           /\ probe' = IF scan.g = "none" THEN [op |-> "on_ready_returned", g |-> "none"]
                       ELSE NoProbe
    /\ loop' = IF loop = "NotStarted" THEN "Running" ELSE loop
    /\ loops' = start_tasks(loop # "NotStarted", loops)
    /\ JOBS' = clear_jobs(JOBS)
    /\ tasks' = Forget(tasks, {})
    /\ dispatch_log' = Forget(dispatch_log, {})
    /\ UNCHANGED <<now, next_id, id_limit, next_message, role_members, surface>>

\* channel.fetch_message returns: from_roster_info binds the message and
\* renders (update_roster_message), up to the await of message.edit
ReadyFetched(h) ==
    /\ h \in Suspended
    /\ h.op = "on_ready"
    /\ h.pc = "fetch"
    /\ LET out == update_roster_message(
                      [World EXCEPT !.rosters[h.roster].message = [id |-> h.message]],
                      h.g, h.roster)
           rest == procs (-) SetToBag({h})
           more == IF out.raised THEN rest
                   ELSE rest (+) SetToBag({[h EXCEPT !.pc = "edit",
                                    !.edit = Request(out.w, h.g, h.roster)]})
       IN  /\ Adopt(Tracked(out.w, Held(more)))
           /\ procs' = more
    /\ probe' = NoProbe
    /\ UNCHANGED <<sched_vars, next_message, role_members, surface>>

\* message.edit returns: load_roster_message returns True, the jobs of the
\* guild's persisted descriptors are added again, and the for loop goes on
\* to the next suspension or to the end of on_ready
ReadyRendered(h) ==
    /\ h \in Suspended
    /\ h.op = "on_ready"
    /\ h.pc = "edit"
    /\ LET st0 == [jobs |-> JOBS, db |-> db, next_id |-> next_id]
           st1 == restore_job(st0, h.g, "weekly_reminder", "cron_send_reminder")
           st2 == restore_job(st1, h.g, "weekly_reset", "cron_reset_roster")
           scan == ready_scan([World EXCEPT !.db = st2.db], h.todo)
           rest == procs (-) SetToBag({h})
           more == IF scan.g = "none" THEN rest
                   ELSE rest (+) SetToBag({[h EXCEPT
                            !.pc = "fetch", !.g = scan.g, !.roster = scan.roster,
                            !.message = scan.message, !.todo = scan.todo,
                            !.edit = None]})
       IN  /\ st2.next_id - 1 <= id_limit
           /\ JOBS' = st2.jobs
           /\ next_id' = st2.next_id
           /\ Adopt(Tracked(scan.w, Held(more)))
           /\ procs' = more
           /\ probe' = [op |-> IF scan.g = "none" THEN "on_ready_returned" ELSE "on_ready",
                        g |-> h.g, roster |-> h.roster, message |-> h.message]
    /\ surface' = Landed(h)
    /\ UNCHANGED <<now, id_limit, loops, loop, tasks, dispatch_log, next_message, role_members>>

\* The datastore an earlier run of the process left: the guild has a static
\* role and, each or not, a roster message (message 0), a weekly reminder
\* (its job id, 0, is of the earlier run) and one member's answer.
EarlierRun(g, roster, reminder, answered) ==
    LET d0 == set_static_role([x \in {} |-> None], g, [id |-> "role"])
        d1 == IF answered
              THEN db_update(d0, DocSet(EmptyDoc, "member_statuses",
                                        merge_status(EmptyMap, "m1", UNAVAILABLE_EMOJI)), g)
              ELSE d0
        d2 == IF roster THEN save_roster_message_id(d1, g, [id |-> 0]) ELSE d1
    IN  IF reminder THEN set_time(d2, g, "weekly_reminder", 0, 0, LastHour, 0) ELSE d2

\* the process has just started
ReadyInit ==
    /\ now = Datetime(0, 0, 0)
    /\ JOBS = [k \in {} |-> None]
    /\ next_id = 1
    /\ id_limit = MaxJobsWide
    /\ loop = "NotStarted"
    /\ loops = 0
    /\ tasks = [k \in {} |-> None]
    /\ dispatch_log = [k \in {} |-> None]
    /\ db \in {EarlierRun("gA", roster, reminder, answered) :
                    roster \in BOOLEAN, reminder \in BOOLEAN, answered \in BOOLEAN}
    /\ probe = NoProbe
    /\ OBSERVERS = [g \in {} |-> 0]
    /\ rosters = [r \in {} |-> None]
    /\ next_message = 1
    /\ role_members = [g \in Guilds |-> {}]
    /\ shown = [k \in {0} |-> EmptyMap]
    /\ surface = [k \in {} |-> EmptyMap]
    /\ procs = EmptyBag

\* on_ready events (the first, and one for each reconnect), the schedule
\* commands, and one member who gets the static role and answers
ReadyNext ==
    \/ OnReady
    \/ \E h \in Suspended : ReadyFetched(h)
    \/ \E h \in Suspended : ReadyRendered(h)
    \/ \E g \in Guilds : SetSchedule(g, "weekly_reminder", "cron_send_reminder", 0, LastHour, 0)
    \/ \E g \in Guilds : SetSchedule(g, "weekly_reset", "cron_reset_roster", 0, LastHour, 0)
    \/ \E g \in Guilds : JoinRole(g, "m1")
    \/ \E g \in Guilds : UpdateStatus(g, "m1", AVAILABLE_EMOJI)
    \/ \E h \in Suspended : EditDone(h)

ReadySpec == ReadyInit /\ [][ReadyNext]_vars

\* on_ready events, updates, and an administrator's resets
RenderNext ==
    \/ ReadyNext
    \/ \E g \in Guilds : ResetNow(g)

RenderSpec == ReadyInit /\ [][RenderNext]_vars

\* the descriptor keys of a guild record, with the task of the job of each
ScheduleKeys == {"weekly_reminder", "weekly_reset"}

TaskOf(key) == IF key = "weekly_reminder" THEN "cron_send_reminder" ELSE "cron_reset_roster"

\* ----------------------------------------------------- admin commands
\* the commands behind @ctx.is_admin
AdminCommands == {"set_reminder", "set_reset", "reset", "remind", "staticrole", "adminrole"}

\* member.roles of the invoking member: with or without the role that
\* `/adminrole` sets
MemberRoles == {{}, {[id |-> "admin"]}}

\* An admin command is invoked by a member (the bot owner or not, with the
\* given roles): the is_admin wrapper replies "You are not an admin." and
\* returns, or runs the command up to its first suspension.
Invoke(g, owner, roles, cmd) ==
    /\ loop # "NotStarted"
    /\ CanStart
    /\ LET chk == is_admin(db, g, owner, roles)
           w0 == [World EXCEPT !.db = chk.db]
           sched == cmd \in {"set_reminder", "set_reset"}
           key == IF cmd = "set_reminder" THEN "weekly_reminder" ELSE "weekly_reset"
           current == get_time(w0.db, g, key)
           kept == IF current # None THEN remove_job(JOBS, current.id) ELSE JOBS
           out == CASE cmd = "reset" -> reset_members(w0, g)
                    [] cmd = "staticrole" ->
                         force_update([w0 EXCEPT !.db = set_static_role(@, g, [id |-> "role"])], g)
                    [] cmd = "adminrole" ->
                         [w |-> [w0 EXCEPT !.db = set_admin_role(@, g, [id |-> "admin"])],
                          raised |-> FALSE]
                    [] sched ->
                         [w |-> [w0 EXCEPT !.db = set_time(@, g, key, next_id, 0, LastHour, 0)],
                          raised |-> FALSE]
                    [] OTHER -> [w |-> w0, raised |-> FALSE]
       IN  /\ (chk.allowed /\ sched) => next_id <= id_limit
           /\ IF ~chk.allowed
              THEN /\ db' = chk.db
                   /\ UNCHANGED <<JOBS, next_id, tasks, dispatch_log, OBSERVERS, rosters,
                                  shown, procs>>
              ELSE /\ Adopt(out.w)
                   /\ procs' = Suspend(After_op(out),
                          [Handler EXCEPT !.op = IF cmd = "reset" THEN "reset_members"
                                                 ELSE "static_role",
                                          !.pc = "edit", !.g = g,
                                          !.edit = Sent(out, g)])
                   /\ JOBS' = IF sched
                              THEN add_weekly_job(kept, next_id, 0, LastHour, 0, TaskOf(key), g)
                              ELSE JOBS
                   /\ next_id' = IF sched THEN next_id + 1 ELSE next_id
                   /\ tasks' = IF sched THEN Forget(tasks, DOMAIN kept) ELSE tasks
                   /\ dispatch_log' = IF sched THEN Forget(dispatch_log, DOMAIN kept)
                                      ELSE dispatch_log
           /\ probe' = [op |-> "is_admin", cmd |-> cmd, g |-> g, owner |-> owner,
                        roles |-> roles, allowed |-> chk.allowed,
                        db |-> db, JOBS |-> JOBS, OBSERVERS |-> OBSERVERS,
                        calls |-> IF chk.allowed THEN out.w.calls ELSE <<>>]
    /\ UNCHANGED <<now, id_limit, loops, loop, next_message, role_members, surface>>

\* the process starts on an empty datastore; members invoke the admin
\* commands, rosters are printed, one member answers
GateNext ==
    \/ StartCronJobs
    \/ \E g \in Guilds, owner \in BOOLEAN, roles \in MemberRoles, cmd \in AdminCommands :
          Invoke(g, owner, roles, cmd)
    \/ \E g \in Guilds : UpdateStatus(g, "m1", AVAILABLE_EMOJI)
    \/ \E h \in Suspended : EditDone(h)
    \/ \E g \in Guilds : PrintStart(g)
    \/ \E h \in Suspended : PrintInject(h)
    \/ \E h \in Suspended : PrintSave(h)

GateSpec == Init /\ [][GateNext]_vars

\* Two guilds.  In the second one an administrator has set the static role and
\* printed the roster (message 0) before the first step; the handlers of
\* both guilds then interleave, with one member and one status.
ObsGuilds == {"gA", "gB"}

ObsInit ==
    /\ now = Datetime(0, 0, 0)
    /\ JOBS = [k \in {} |-> None]
    /\ next_id = 1
    /\ id_limit = MaxJobs
    /\ loop = "NotStarted"
    /\ loops = 0
    /\ tasks = [k \in {} |-> None]
    /\ dispatch_log = [k \in {} |-> None]
    /\ db = [g \in {"gB"} |->
                save_roster_message_id(
                    set_static_role([x \in {} |-> None], g, [id |-> "role"]),
                    g, [id |-> 0])[g]]
    /\ probe = NoProbe
    /\ OBSERVERS = [g \in {"gB"} |-> 0]
    /\ rosters = [r \in {0} |-> [message |-> [id |-> 0], member_statuses |-> EmptyMap]]
    /\ next_message = 1
    /\ role_members = [g \in ObsGuilds |-> {}]
    /\ shown = [k \in {} |-> EmptyMap]
    /\ surface = [k \in {} |-> EmptyMap]
    /\ procs = EmptyBag

ObsNext ==
    \/ \E g \in ObsGuilds : JoinRole(g, "m1")
    \/ \E g \in ObsGuilds : UpdateStatus(g, "m1", AVAILABLE_EMOJI)
    \/ \E g \in ObsGuilds : StaticRole(g)
    \/ \E h \in Suspended : EditDone(h)
    \/ \E g \in ObsGuilds : PrintStart(g)
    \/ \E h \in Suspended : PrintInject(h)
    \/ \E h \in Suspended : PrintSave(h)

ObsSpec == ObsInit /\ [][ObsNext]_vars

\* ----------------------------------------------------------- store claims
\* after is before with member m mapped to status s, every other entry as it was
IsMerge(after, before, m, s) ==
    /\ DOMAIN after = DOMAIN before \cup {m}
    /\ after[m] = s
    /\ \A k \in DOMAIN before \ {m} : after[k] = before[k]

\* the persisted map of the guild of the latest store operation
Persisted == get_member_statues(db, probe.g)

\* the latest step was update_member_status, here up to its first suspension
Updated == probe.op = "update_member_status"

\* the other members' entries as they were persisted before the call
PriorOthers == IF Updated THEN Without(probe.before, probe.m) ELSE probe.others

\* C9 as stated: when update_member_status returns, get_member_statues
\* returns the previous persisted map with member mapped to status, every
\* other entry unchanged.
C9_MergedAtReturn ==
    ((Updated /\ probe.pc = "returned") \/ probe.op = "update_returned")
        => IsMerge(Persisted, PriorOthers, probe.m, probe.s)

\* C9, amended: update_member_status persists the merge before it notifies
\* or returns.  Right after its db.update the persisted map is the previous
\* map with member mapped to status, every other entry unchanged; when no
\* observer is notified the call returns at once and that is the map at
\* return; when the observer is notified, the map at the observer's
\* message edit is that map extended by Default for the static-role members
\* that had no entry, and nothing else.
C9_MergesDurably ==
    Updated =>
        /\ IsMerge(probe.wrote, probe.before, probe.m, probe.s)
        /\ probe.calls = <<>> => (probe.pc = "returned" /\ Persisted = probe.wrote)
        /\ probe.pc = "edit" =>
              /\ \A k \in DOMAIN probe.wrote :
                    k \in DOMAIN Persisted /\ Persisted[k] = probe.wrote[k]
              /\ \A k \in DOMAIN Persisted \ DOMAIN probe.wrote :
                    k \in role_members[probe.g] /\ Persisted[k] = DEFAULT_EMOJI

\* an update overwrote the member's own earlier status, next to another
\* member's entry, and the observer it notified is suspended in message.edit
C9_Witness ==
    /\ Updated
    /\ probe.pc = "edit"
    /\ probe.m \in DOMAIN probe.before
    /\ probe.before[probe.m] # probe.s
    /\ DOMAIN probe.before # {probe.m}
    /\ Persisted = probe.wrote

\* C10: with an observer registered for the guild, a non-quiet
\* update_member_status invokes that observer exactly once, with the complete
\* persisted map after the change (every earlier entry included), and with no
\* observer it invokes nothing; the quiet updates of the render persist their
\* Default entries and invoke no observer.
C10_ObserverOnceFullMap ==
    Updated =>
        /\ probe.observed =>
              /\ Len(probe.calls) = 1
              /\ probe.calls[1].roster = OBSERVERS[probe.g]
              /\ probe.calls[1].statuses = probe.wrote
              /\ \A k \in DOMAIN probe.before : k \in DOMAIN probe.calls[1].statuses
        /\ ~probe.observed => probe.calls = <<>>
        /\ probe.pc = "edit" =>
              \A k \in role_members[probe.g] :
                  /\ k \in DOMAIN Persisted
                  /\ k \notin DOMAIN probe.wrote => Persisted[k] = DEFAULT_EMOJI

\* the observer was invoked once, with a map that holds the new entry and
\* another member's earlier entry
C10_Witness ==
    /\ Updated
    /\ probe.observed
    /\ Len(probe.calls) = 1
    /\ probe.m \notin DOMAIN probe.before
    /\ \E k \in DOMAIN probe.before :
          /\ k # probe.m
          /\ probe.before[k] # DEFAULT_EMOJI
          /\ DOMAIN probe.calls[1].statuses = {k, probe.m}
          /\ probe.calls[1].statuses[k] = probe.before[k]

\* C11: update_member_status on a guild with no registered observer raises
\* nothing, invokes and renders nothing, returns at once, and the change is
\* persisted: the map read back is the earlier map with the member's new
\* status merged in.
C11_SilentWithoutObserver ==
    (Updated /\ ~probe.observed) =>
        /\ probe.pc = "returned"
        /\ probe.calls = <<>>
        /\ probe.m \in DOMAIN Persisted
        /\ Persisted[probe.m] = probe.s
        /\ IsMerge(Persisted, probe.before, probe.m, probe.s)

\* a member of the static role, with no entry yet, updates in a guild that
\* has a static role and no observer
C11_Witness ==
    /\ Updated
    /\ ~probe.observed
    /\ get_static_role(db, probe.g) # None
    /\ probe.m \in role_members[probe.g]
    /\ probe.m \notin DOMAIN probe.before
    /\ Persisted[probe.m] = probe.s

\* the latest step was reset_members or remove_member, up to its first suspension
Removed == probe.op \in {"reset_members", "remove_member"}

\* what reset_members / remove_member is to leave persisted
Cleared == IF probe.op = "reset_members" THEN EmptyMap ELSE pop(probe.before, probe.m)

\* C12: reset_members and remove_member on a guild with no registered
\* observer complete without raising, render nothing, and the change (the
\* empty map, or the map without the member) is persisted.
C12_MutationSilentWithoutObserver ==
    (Removed /\ ~probe.observed) =>
        /\ probe.pc = "returned"
        /\ probe.calls = <<>>
        /\ Persisted = Cleared

\* the latest step was reset_members on a guild with an observer
ResetObserved == probe.op = "reset_members" /\ probe.observed

\* the observer was invoked once, with an empty map
NotifiedEmpty ==
    /\ Len(probe.calls) = 1
    /\ probe.calls[1].roster = OBSERVERS[probe.g]
    /\ probe.calls[1].statuses = EmptyMap

\* C13 as stated: with the Roster's observer registered, reset_members, the
\* first call and the one right after it alike, leaves the persisted map of
\* the guild empty and invokes the observer with an empty map.
C13_ResetLeavesEmpty ==
    ResetObserved => (Persisted = EmptyMap /\ NotifiedEmpty)

\* C13, amended: with the Roster's observer registered, reset_members, the
\* first call and the one right after it alike, persists an empty map and
\* invokes the observer once with an empty map; the observer's render then
\* persists Default for every member of the static role, so that when the
\* call reaches its message edit the persisted map holds exactly the static
\* role's members, each with Default, and no status set before the reset.
C13_ResetTwiceDefaults ==
    ResetObserved =>
        /\ probe.wrote = EmptyMap
        /\ NotifiedEmpty
        /\ probe.pc = "edit"
        /\ DOMAIN Persisted = role_members[probe.g]
        /\ \A k \in DOMAIN Persisted : Persisted[k] = DEFAULT_EMOJI

\* the second reset in a row, in a guild whose static role has a member: the
\* first one had left that member's Default entry
C13_Witness ==
    /\ ResetObserved
    /\ probe.again
    /\ role_members[probe.g] # {}
    /\ DOMAIN probe.before = role_members[probe.g]
    /\ Persisted = probe.before

\* the latest step was a status mutation of the store, up to its first suspension
Mutated == probe.op \in {"update_member_status", "reset_members", "remove_member"}

\* the latest step registered a Roster as its guild's observer
Registered == probe.op = "register"

\* C14: a guild has at most one observer and registration replaces it.  Only
\* a registration changes the observer table; it binds the guild to the new
\* Roster and leaves every other guild's observer as it was; and every
\* mutation of a guild invokes the Roster registered last for that guild and
\* no other, the Rosters of the other guilds staying untouched.
C14_Step ==
    /\ OBSERVERS' # OBSERVERS => Registered'
    /\ Registered' =>
          /\ DOMAIN OBSERVERS' = DOMAIN OBSERVERS \cup {probe'.g}
          /\ OBSERVERS'[probe'.g] = probe'.roster
          /\ probe'.roster \notin DOMAIN rosters
          /\ \A x \in DOMAIN OBSERVERS \ {probe'.g} : OBSERVERS'[x] = OBSERVERS[x]
    /\ Mutated' =>
          /\ \A i \in 1..Len(probe'.calls) : probe'.calls[i].roster = OBSERVERS[probe'.g]
          /\ \A x \in DOMAIN OBSERVERS \ {probe'.g} :
                rosters'[OBSERVERS[x]] = rosters[OBSERVERS[x]]

C14_RegistrationReplaces == [][C14_Step]_vars

\* a guild's second Roster, the last message created, is invoked by an update
\* while the other guild still has the observer it started with
C14_Witness ==
    /\ Updated
    /\ Len(probe.calls) = 1
    /\ probe.calls[1].roster = MaxMessages
    /\ \E x \in DOMAIN OBSERVERS \ {probe.g} : OBSERVERS[x] = 0

\* the updates of other members of guild g that are suspended, their status
\* persisted and their handler not yet returned
InFlight(g, m) ==
    {h \in Suspended : h.op = "update_member_status" /\ h.g = g /\ h.m # m}

\* C15: no update is lost.  An update that runs while updates of other
\* members of the same guild are suspended (the only suspension of an
\* update is the observer's message edit, after its db.update) persists its
\* own status and leaves the entries of those members as they were; and the
\* resumption of a suspended update writes nothing.  So when both have
\* returned the persisted map holds both members' statuses.
C15_Step ==
    /\ Updated' =>
          LET g == probe'.g
              before == get_member_statues(db, g)
              after == get_member_statues(db', g)
          IN  /\ probe'.m \in DOMAIN after
              /\ after[probe'.m] = probe'.s
              /\ \A h \in InFlight(g, probe'.m) :
                    h.m \in DOMAIN before =>
                        (h.m \in DOMAIN after /\ after[h.m] = before[h.m])
    /\ probe'.op = "update_returned" => db' = db

C15_NoLostUpdate == [][C15_Step]_vars

\* a member's update has just been persisted while another member's update
\* is suspended in its message edit, and the map holds both statuses
C15_Witness ==
    /\ Updated
    /\ probe.pc = "edit"
    /\ \E h \in InFlight(probe.g, probe.m) :
          /\ h.m \in DOMAIN Persisted
          /\ Persisted[h.m] = h.s
          /\ Persisted[probe.m] = probe.s
          /\ h.s # probe.s

\* ---------------------------------------------------------- on_ready claims
\* an on_ready has returned and none is in flight
Reconciled ==
    /\ probe.op = "on_ready_returned"
    /\ \A h \in Suspended : h.op # "on_ready"

\* C16: when on_ready has completed, the job id of every persisted
\* weekly_reminder / weekly_reset descriptor, of a guild with or without a
\* persisted roster message, is the key of a job in the registry.
C16_DescriptorsLive ==
    Reconciled =>
        \A g \in Guilds, key \in ScheduleKeys :
            get_time(db, g, key) # None => get_time(db, g, key).id \in DOMAIN JOBS

\* the guild's jobs of one kind in the registry
JobsOf(g, key) ==
    {id \in DOMAIN JOBS : JOBS[id].task = TaskOf(key) /\ JOBS[id].args = g}

\* C17: whenever no on_ready is in flight, however many have run and
\* whatever set_reminder / set_reset commands ran in between or while one was
\* suspended, the registry holds at most one reminder job and at most one
\* reset job of a guild, and its id is the one persisted in the guild record.
C17_NoDuplicateJobs ==
    (\A h \in Suspended : h.op # "on_ready") =>
        \A g \in Guilds, key \in ScheduleKeys :
            /\ Cardinality(JobsOf(g, key)) <= 1
            /\ \A id \in JobsOf(g, key) :
                  get_time(db, g, key) # None /\ get_time(db, g, key).id = id

\* on_ready has just finished with a guild that has a roster message
GuildReconciled == probe.op \in {"on_ready", "on_ready_returned"} /\ probe.g # "none"

\* every status the list shows is the member's persisted status
ShowsPersisted(names, statuses) ==
    \A m \in DOMAIN names : m \in DOMAIN statuses /\ statuses[m] = names[m]

\* C18: when on_ready has reconciled a guild that has a persisted roster
\* message, a Roster is registered as the guild's observer and the status
\* list last rendered to the roster message is the persisted status map of
\* that moment, also when updates arrived while from_roster_info was
\* suspended.
C18_RenderedIsPersisted ==
    GuildReconciled =>
        /\ probe.g \in DOMAIN OBSERVERS
        /\ OBSERVERS[probe.g] \in DOMAIN rosters
        /\ ShowsPersisted(shown[probe.message], get_member_statues(db, probe.g))

\* ------------------------------------------------------------ render claims
\* The handlers whose step rendered: update_roster_message ran through
\* create_status_list and the handler now awaits its message.edit.
Rendering == {h \in BagToSet(procs') : h.pc = "edit" /\ CopiesIn(h, procs') > CopiesIn(h, procs)}

\* the member whose status the handler's own update has just persisted
Answering(h, m) == h.op = "update_member_status" /\ h.m = m

\* C19: after every render of a guild's roster, every member of the guild's
\* static role has an entry in the persisted map, and a member that had none
\* (and is not the one whose update is being rendered) has Default.
C19_Step ==
    \A h \in Rendering :
        LET before == get_member_statues(db, h.g)
            after == get_member_statues(db', h.g)
        IN  \A m \in role_members[h.g] :
                /\ m \in DOMAIN after
                /\ (m \notin DOMAIN before /\ ~Answering(h, m)) => after[m] = DEFAULT_EMOJI

C19_RenderCompletes == [][C19_Step]_vars

\* ------------------------------------------------------------ admin claims
\* the latest step was the invocation of an admin command by a member who is
\* not the bot owner and does not hold the guild's admin role (or none is set)
Intruded ==
    /\ probe.op = "is_admin"
    /\ ~probe.owner
    /\ get_admin_role(probe.db, probe.g) \notin probe.roles

\* C20 as stated: an unauthorized invocation of an admin command is rejected
\* and leaves the job registry, the persisted guild record and the observer
\* table unchanged.
C20_NothingChanged ==
    Intruded =>
        /\ ~probe.allowed
        /\ JOBS = probe.JOBS
        /\ OBSERVERS = probe.OBSERVERS
        /\ db = probe.db

\* C20, amended: an unauthorized invocation of an admin command is rejected
\* and leaves the job registry, the observer table and every field of every
\* persisted guild record unchanged; the one thing it may write is the empty
\* record that get_guild_doc creates for a guild that had none.
C20_NoFieldChanged ==
    Intruded =>
        /\ ~probe.allowed
        /\ JOBS = probe.JOBS
        /\ OBSERVERS = probe.OBSERVERS
        /\ DOMAIN db = DOMAIN probe.db \cup {probe.g}
        /\ \A g \in DOMAIN db : db[g] = get_guild_doc(probe.db, g).doc

\* a member without roles is refused `/reset now` in a guild that has no
\* admin role set but has a job, an observer and an answer to lose
C20_Witness ==
    /\ Intruded
    /\ probe.cmd = "reset"
    /\ get_admin_role(db, probe.g) = None
    /\ JOBS # <<>>
    /\ probe.g \in DOMAIN OBSERVERS
    /\ get_member_statues(db, probe.g) # EmptyMap

\* ---------------------------------------------------------- roster surface
\* An administrator has set the static role and printed the roster (message
\* 0, whose content is watched) before the first step; then members get the
\* role and answer, their updates overlapping.
SurfaceInit ==
    /\ now = Datetime(0, 0, 0)
    /\ JOBS = [k \in {} |-> None]
    /\ next_id = 1
    /\ id_limit = MaxJobs
    /\ loop = "NotStarted"
    /\ loops = 0
    /\ tasks = [k \in {} |-> None]
    /\ dispatch_log = [k \in {} |-> None]
    /\ db = save_roster_message_id(
                set_static_role([x \in {} |-> None], "gA", [id |-> "role"]),
                "gA", [id |-> 0])
    /\ probe = NoProbe
    /\ OBSERVERS = [g \in {"gA"} |-> 0]
    /\ rosters = [r \in {0} |-> [message |-> [id |-> 0], member_statuses |-> EmptyMap]]
    /\ next_message = 1
    /\ role_members = [g \in Guilds |-> {}]
    /\ shown = [k \in {} |-> EmptyMap]
    /\ surface = [k \in {0} |-> EmptyMap]
    /\ procs = EmptyBag

SurfaceNext ==
    \/ \E g \in Guilds, m \in Members : JoinRole(g, m)
    \/ \E g \in Guilds, m \in Members, s \in CmdStatuses : UpdateStatus(g, m, s)
    \/ \E h \in Suspended : EditDone(h)

SurfaceSpec == SurfaceInit /\ [][SurfaceNext]_vars

\* the last of a set of overlapping updates has returned: no observer
\* invocation and no message edit is in flight
Settled == probe.op = "update_returned" /\ procs = EmptyBag

\* C21: the roster surface converges to the store.  When the updates of a
\* guild with a registered Roster have all completed, every status the
\* roster message shows is the member's status in the final persisted map.
C21_SurfaceConverges ==
    Settled => ShowsPersisted(surface[0], get_member_statues(db, probe.g))

\* ------------------------------------------------------- loop and on_ready
\* on_ready events (the first, and one for each reconnect) in a process
\* whose loop ticks and dispatches the jobs that on_ready has added again
LoopNext ==
    \/ OnReady
    \/ \E h \in Suspended : ReadyFetched(h)
    \/ \E h \in Suspended : ReadyRendered(h)
    \/ Tick
    \/ \E id \in JobIds : StartRun(id)

\* the earlier run left a roster message and a weekly reminder
LoopInit == ReadyInit /\ db = EarlierRun("gA", TRUE, TRUE, FALSE)

LoopSpec == LoopInit /\ [][LoopNext]_vars

\* the on_ready handlers that are suspended
ReadyInFlight ==
    BagCardinality([h \in {x \in Suspended : x.op = "on_ready"} |-> CopiesIn(h, procs)])

\* C22: the scheduler loop is started at most once per process.  However
\* many on_ready events have run, and however they overlap, on_ready has
\* created at most one start_cron_jobs task, a loop is running only when
\* that one was created, and no job is dispatched twice on a date.
C22_LoopStartedOnce ==
    /\ loops <= 1
    /\ loop # "NotStarted" <=> loops = 1
    /\ \A id \in DOMAIN dispatch_log : dispatch_log[id].count <= 1

\* two on_ready events are in flight at once in a process whose loop has
\* been ticking, and one loop was started
C22_Witness ==
    /\ ReadyInFlight = 2
    /\ now # Datetime(0, 0, 0)
    /\ loop = "Running"
    /\ loops = 1

\* ---------------------------------------------------------- pass claims
\* C23: a pass tolerates the commands that change the registry between the
\* passes and while tasks run.  The pass has no await in it, so the registry
\* it iterates is the registry at its start; every job of that registry is
\* evaluated (should_run is called on it) in that pass.
C23_PassEvaluatesAll ==
    [][(loop = "Running" /\ now' # now) => Reached(JOBS, now') = DOMAIN JOBS]_vars

\* --------------------------------------------------------- schedule claims
\* the step of a set_reminder / set_reset command: a weekly job is added
\* under the next id, and no suspended handler resumes
Scheduled ==
    /\ next_id' = next_id + 1
    /\ procs' = procs
    /\ next_id \in DOMAIN JOBS'
    /\ JOBS'[next_id].kind = "weekly"

\* the guild's jobs of one task in a registry
JobsIn(jobs, g, task) == {id \in DOMAIN jobs : jobs[id].task = task /\ jobs[id].args = g}

\* C24: changing a schedule is remove + add.  After a set_reminder (resp.
\* set_reset) command the registry holds exactly one reminder (resp. reset)
\* job of the guild, the one just added with the command's day, hour and
\* minute; its id is the id persisted in the guild's descriptor; and the job
\* of the descriptor persisted before is no longer registered.
C24_Step ==
    Scheduled =>
        LET job == JOBS'[next_id]
            g == job.args
            key == CHOOSE k \in ScheduleKeys : TaskOf(k) = job.task
            previous == get_time(db, g, key)
        IN  /\ JobsIn(JOBS', g, job.task) = {next_id}
            /\ get_time(db', g, key) = ScheduledTask(next_id, job.day, job.hour, job.minute)
            /\ previous # None => previous.id \notin DOMAIN JOBS'

C24_RemoveThenAdd == [][C24_Step]_vars

\* ------------------------------------------------------------ print claims
\* no print_roster command is in progress for the guild
NoPrint(g) == \A h \in Suspended : ~(h.op = "print_roster" /\ h.g = g)

\* C25: the persisted roster reference names the live surface.  Whenever no
\* print_roster is in progress for a guild that has a persisted
\* roster_message reference, the guild's registered observer is a Roster
\* whose message is the message of that reference.
C25_ReferenceIsLive ==
    \A g \in Guilds :
        (NoPrint(g) /\ get_roster_message_id(db, g) # None) =>
            /\ g \in DOMAIN OBSERVERS
            /\ rosters[OBSERVERS[g]].message # None
            /\ rosters[OBSERVERS[g]].message.id = get_roster_message_id(db, g).id

\* --------------------------------------------------------------- reminders
\* The sequences that list every element of a set once.  member_statuses is
\* a dict and is iterated in insertion order, which the model's maps do not
\* keep: the list of a set of members is taken in any order.
Orders(S) ==
    {q \in [1..Cardinality(S) -> S] : \A i, j \in 1..Cardinality(S) : q[i] = q[j] => i = j}

\* send_reminders, the filter: the members whose persisted status is Default
default_members(d, g) ==
    {m \in DOMAIN get_member_statues(d, g) : get_member_statues(d, g)[m] = DEFAULT_EMOJI}

\* send_reminder(member) is called: the history keeps the member's persisted
\* status of this moment
reminder_probe(d, g, m) ==
    [op |-> "send_reminder", g |-> g, m |-> m,
     status |-> doc_get(get_member_statues(d, g), m, None)]

\* commands.remind_all after its defer has returned:
\* send_reminders reads the statuses, lists the members with Default, and
\* calls send_reminder for the first, up to its await of member.send
RemindStart(g) ==
    /\ CanStart
    /\ db' = get_guild_doc(db, g).db
    /\ \E member_ids \in Orders(default_members(db, g)) :
          IF member_ids = <<>>
          THEN /\ procs' = procs
               /\ probe' = NoProbe
          ELSE /\ procs' = procs (+) SetToBag({[Handler EXCEPT
                              !.op = "send_reminders", !.pc = "send", !.g = g,
                              !.m = Head(member_ids), !.todo = Tail(member_ids)]})
               /\ probe' = reminder_probe(db, g, Head(member_ids))
    /\ UNCHANGED <<sched_vars, OBSERVERS, rosters, next_message, role_members, shown, surface>>

\* member.send returns: the for loop of send_reminders goes on to the next
\* member of its list, or send_reminders returns
RemindSent(h) ==
    /\ h \in Suspended
    /\ h.op = "send_reminders"
    /\ IF h.todo = <<>>
       THEN /\ procs' = procs (-) SetToBag({h})
            /\ probe' = NoProbe
       ELSE /\ procs' = (procs (-) SetToBag({h}))
                            (+) SetToBag({[h EXCEPT !.m = Head(h.todo), !.todo = Tail(h.todo)]})
            /\ probe' = reminder_probe(db, h.g, Head(h.todo))
    /\ UNCHANGED <<sched_vars, db, OBSERVERS, rosters, next_message, role_members, shown, surface>>

\* a printed roster, members who get the role and answer, resets and reminders
RemindNext ==
    \/ \E g \in Guilds, m \in Members : JoinRole(g, m)
    \/ \E g \in Guilds, m \in Members : UpdateStatus(g, m, AVAILABLE_EMOJI)
    \/ \E g \in Guilds : ResetNow(g)
    \/ \E h \in Suspended : EditDone(h)
    \/ \E g \in Guilds : RemindStart(g)
    \/ \E h \in Suspended : RemindSent(h)

RemindSpec == SurfaceInit /\ [][RemindNext]_vars

\* C26: reminders go only to members who have not responded.  Every
\* send_reminder call is for a member whose persisted status is Default at
\* the moment of the call.
C26_RemindsOnlyDefault ==
    probe.op = "send_reminder" => probe.status = DEFAULT_EMOJI

\* ---------------------------------------------------------- observer claims
\* C27: a registered observer is always able to render.  The Roster whose
\* callback is a guild's observer has a message bound, and no status update
\* fails inside the observer.
C27_ObserverCanRender ==
    /\ \A g \in DOMAIN OBSERVERS : rosters[OBSERVERS[g]].message # None
    /\ Updated => probe.pc # "raised"

\* the member has responded: the persisted status is not Default
Responded(d, g, m) ==
    /\ m \in DOMAIN get_member_statues(d, g)
    /\ get_member_statues(d, g)[m] # DEFAULT_EMOJI

\* C28: lazy defaulting never overwrites a response.  A member whose
\* persisted status is Available or Unavailable keeps a status that is not
\* Default through every step that is not reset_members.
C28_Step ==
    \A g \in Guilds, m \in Members :
        (Responded(db, g, m) /\ probe'.op # "reset_members") => Responded(db', g, m)

C28_ResponseKept == [][C28_Step]_vars

\* ------------------------------------------------------------- due claims
\* at instant t it is the weekly job's weekday, at or after its time of day,
\* and the job has not run on that date (whenever it ran before)
DueToday(job, t) ==
    /\ job.kind = "weekly"
    /\ Weekday(t) = job.day
    /\ TimeOfDay(t.hour, t.minute) >= TimeOfDay(job.hour, job.minute)
    /\ job.last_run = None \/ job.last_run.date # t.date

\* C29: a due job is dispatched.  On every tick of the running loop, a
\* registered weekly job whose weekday it is, whose time of day has come and
\* which has not run on that date is dispatched on that tick: so it is
\* dispatched on the first such tick of the day, also when it last ran more
\* than a week ago.
C29_DueIsDispatched ==
    [][(loop = "Running" /\ now' # now) =>
          \A id \in DOMAIN JOBS :
              DueToday(JOBS[id], now') => (id \in DOMAIN tasks' /\ tasks'[id].st = "created")]_vars

\* ------------------------------------------------------- static role claims
\* the latest step was `/staticrole`, run for an administrator up to its
\* first suspension: set_static_role, then force_update
RoleChanged == probe.op = "is_admin" /\ probe.cmd = "staticrole" /\ probe.allowed

\* C30: changing the static role clears the statuses.  After
\* set_static_role the guild's persisted record has the new static_role and
\* no member statuses, so that get_member_statues returns the empty map, and
\* the force_update that follows passes the empty map to the guild's
\* observer (whose render may then persist Default for members of the role).
C30_RoleChangeClears ==
    RoleChanged =>
        /\ get_static_role(db, probe.g) = [id |-> "role"]
        /\ \A m \in DOMAIN get_member_statues(db, probe.g) :
              m \in role_members[probe.g] /\ get_member_statues(db, probe.g)[m] = DEFAULT_EMOJI
        /\ \A i \in 1..Len(probe.calls) : probe.calls[i].statuses = EmptyMap
        /\ probe.g \in DOMAIN probe.OBSERVERS => Len(probe.calls) = 1

====
